---- MODULE Spec2Model ----
(***************************************************************************)
(* Model of insights/parsers/gluster_vol.py: the parsers GlusterVolInfo    *)
(* and GlusterVolStatus.                                                   *)
(*                                                                         *)
(* A string is a sequence of symbols.  A symbol is one character of the    *)
(* text: the blank " ", the colon ":", the underscore "_", the comment     *)
(* character "#", a rule of dashes "----", or a run of other characters    *)
(* taken as one unit ("Volume", "v1", "/d").  Every string operation of    *)
(* the code (strip, split, startswith, replace, index, slicing) is         *)
(* computed on these sequences as Python computes it on characters.        *)
(***************************************************************************)
EXTENDS Integers, Sequences, FiniteSets, TLC

VARIABLES
  parser,     \* which parser class the object is: "info" or "status"
  content,    \* the lines handed to parse_content
  data,       \* self.data
  outcome,    \* "pending" before the call; then "ok" or the exception raised
  no_heading, \* whether the call handed parse_fixed_table a block without heading
  history,    \* the finished earlier calls of parse_content on this object
  phase       \* the client's post_update phase: options, calls made, exit code

vars == <<parser, content, data, outcome, no_heading, history, phase>>

----------------------------------------------------------------------------
(* Python string primitives *)

SetMax(S) == CHOOSE x \in S : \A y \in S : y <= x
SetMin(S) == CHOOSE x \in S : \A y \in S : x <= y

Min(a, b) == IF a < b THEN a ELSE b
Max(a, b) == IF a > b THEN a ELSE b

\* s[i:j] with 0-based i, j already non-negative (Python clamps to len(s))
Slice(s, i, j) == SubSeq(s, i + 1, Min(j, Len(s)))

\* s[i:]
SliceFrom(s, i) == SubSeq(s, i + 1, Len(s))

IsSpace(c) == c = " "

\* str.lstrip()
lstrip(s) ==
  IF \A i \in 1..Len(s) : IsSpace(s[i]) THEN <<>>
  ELSE LET f == CHOOSE i \in 1..Len(s) :
                  /\ ~IsSpace(s[i])
                  /\ \A j \in 1..(i-1) : IsSpace(s[j])
       IN SubSeq(s, f, Len(s))

\* str.rstrip()
rstrip(s) ==
  IF \A i \in 1..Len(s) : IsSpace(s[i]) THEN <<>>
  ELSE LET l == CHOOSE i \in 1..Len(s) :
                  /\ ~IsSpace(s[i])
                  /\ \A j \in (i+1)..Len(s) : IsSpace(s[j])
       IN SubSeq(s, 1, l)

\* str.strip()
strip(s) == lstrip(rstrip(s))

\* str.startswith(p)
startswith(s, p) == Len(s) >= Len(p) /\ SubSeq(s, 1, Len(p)) = p

\* str.find(sub): 0-based offset of the first occurrence, -1 when absent
find(s, sub) ==
  LET hits == {i \in 0..(Len(s) - Len(sub)) : SubSeq(s, i + 1, i + Len(sub)) = sub}
  IN IF hits = {} THEN -1 ELSE CHOOSE i \in hits : \A j \in hits : i <= j

\* sub in s
contains(s, sub) == find(s, sub) >= 0

\* s.split(sep, 1): one part when sep is absent, else the two parts around
\* the first occurrence
split1(s, sep) ==
  LET i == find(s, sep)
  IN IF i < 0 THEN <<s>>
     ELSE <<SubSeq(s, 1, i), SubSeq(s, i + Len(sep) + 1, Len(s))>>

\* s.split(): the maximal runs of non-blank symbols
RECURSIVE split(_)
split(s) ==
  LET t == lstrip(s)
  IN IF t = <<>> THEN <<>>
     ELSE LET blanks == {i \in 1..Len(t) : IsSpace(t[i])}
              e == IF blanks = {} THEN Len(t) + 1
                   ELSE CHOOSE i \in blanks : \A j \in blanks : i <= j
          IN <<SubSeq(t, 1, e - 1)>> \o split(SubSeq(t, e, Len(t)))

\* s.replace(old, new): every non-overlapping occurrence, left to right
RECURSIVE replace(_, _, _)
replace(s, old, new) ==
  LET i == find(s, old)
  IN IF i < 0 \/ old = <<>> THEN s
     ELSE SubSeq(s, 1, i) \o new \o replace(SubSeq(s, i + Len(old) + 1, Len(s)), old, new)

\* a dict with one item set: d[k] = v
DictSet(d, k, v) == [x \in (DOMAIN d) \cup {k} |-> IF x = k THEN v ELSE d[x]]

EmptyDict == [x \in {} |-> <<>>]

----------------------------------------------------------------------------
(* String literals of gluster_vol.py *)

Colon == <<":">>
VolumeName == <<"Volume", " ", "Name">>
StatusOfVolume == <<"Status", " ", "of", " ", "volume">>
GlusterProcess == <<"Gluster", " ", "process">>
Gluster_process == <<"Gluster", "_", "process">>
TCPPort == <<"TCP", " ", "Port">>
TCP_Port == <<"TCP", "_", "Port">>
RDMAPort == <<"RDMA", " ", "Port">>
RDMA_Port == <<"RDMA", "_", "Port">>
TaskStatus == <<"Task", " ", "Status">>
Brick == <<"Brick">>
SelfHeal == <<"Self-heal">>
Dashes == <<"----">>
Hash == <<"#">>

----------------------------------------------------------------------------
(* insights.parsers.get_active_lines: every line cut at the comment marker *)
(* and stripped; the lines left empty are dropped                          *)

RECURSIVE get_active_lines(_, _)
get_active_lines(lines, comment_char) ==
  IF lines = <<>> THEN <<>>
  ELSE LET line == strip(split1(Head(lines), comment_char)[1])
       IN (IF line = <<>> THEN <<>> ELSE <<line>>)
            \o get_active_lines(Tail(lines), comment_char)

----------------------------------------------------------------------------
(* GlusterVolInfo.parse_content *)

\* The name variable of the loop: <<>> is None, <<s>> is the string s.
None == <<>>
Some(s) == <<s>>

\* Python truth of name: neither None nor the empty string
NameTruthy(name) == name # None /\ name[1] # <<>>

\* ':' in line
HasColon(line) == contains(line, Colon)

\* key, val = line.strip().split(":", 1); key = key.strip()
InfoKey(line) == strip(split1(strip(line), Colon)[1])

\* InfoVal with the line split at its last colon
InfoVal_rsplit(line) ==
  LET t == strip(line)
      last == SetMax({i \in 1..Len(t) : t[i] = ":"})
  IN lstrip(SubSeq(t, last + 1, Len(t)))

\* val = val.lstrip()
InfoVal(line) == lstrip(split1(strip(line), Colon)[2])

\* InfoStart without "self.data = {}": the mapping of the call before stays
InfoStart_keep == [name |-> None, body |-> EmptyDict, data |-> data, exc |-> ""]

\* The loop's local state and the exception raised, if any ("" for none)
InfoStart == [name |-> None, body |-> EmptyDict, data |-> EmptyDict, exc |-> ""]

\* InfoStep with the line without colon skipped instead of refused
InfoStep_skip(st, line) ==
  IF st.exc # "" \/ ~HasColon(line) THEN st
  ELSE LET key == InfoKey(line)
           val == InfoVal(line)
       IN IF key = VolumeName
          THEN IF st.name = None
               THEN [st EXCEPT !.name = Some(val)]
               ELSE [st EXCEPT !.data = DictSet(st.data, st.name[1], st.body),
                               !.name = Some(val),
                               !.body = EmptyDict]
          ELSE [st EXCEPT !.body = DictSet(st.body, strip(key), lstrip(val))]

\* One iteration of "for line in get_active_lines(content)"
InfoStep(st, line) ==
  IF st.exc # "" THEN st
  ELSE IF ~HasColon(line) THEN [st EXCEPT !.exc = "ParseException"]
  ELSE LET key == InfoKey(line)
           val == InfoVal(line)
       IN IF key = VolumeName
          THEN IF st.name = None
               THEN [st EXCEPT !.name = Some(val)]
               ELSE [st EXCEPT !.data = DictSet(st.data, st.name[1], st.body),
                               !.name = Some(val),
                               !.body = EmptyDict]
          ELSE [st EXCEPT !.body = DictSet(st.body, strip(key), lstrip(val))]

RECURSIVE InfoLoop(_, _)
InfoLoop(st, lines) ==
  IF lines = <<>> THEN st
  ELSE InfoLoop(InfoStep(st, Head(lines)), Tail(lines))

\* if name and body: self.data[name] = body
InfoCommitLast(st) ==
  IF st.exc = "" /\ NameTruthy(st.name) /\ DOMAIN st.body # {}
  THEN [st EXCEPT !.data = DictSet(st.data, st.name[1], st.body)]
  ELSE st

\* if not self.data: raise ParseException
InfoCheckEmpty(st) ==
  IF st.exc = "" /\ DOMAIN st.data = {}
  THEN [st EXCEPT !.exc = "ParseException"]
  ELSE st

InfoResult(lines) ==
  InfoCheckEmpty(InfoCommitLast(InfoLoop(InfoStart, get_active_lines(lines, Hash))))

GlusterVolInfo_parse_content ==
  /\ parser = "info"
  /\ outcome = "pending"
  /\ LET r == InfoResult(content)
     IN /\ data' = r.data
        /\ outcome' = IF r.exc = "" THEN "ok" ELSE r.exc
  /\ UNCHANGED <<parser, content, no_heading, history, phase>>

----------------------------------------------------------------------------
(* insights.parsers.parse_fixed_table: the heading is the first line that  *)
(* starts with one of heading_ignore; its column names, after the          *)
(* substitutions, are its blank-separated words and each column starts at  *)
(* the offset of its name; the rows are the lines after the heading, up to *)
(* the first line that starts with one of trailing_ignore; each row is     *)
(* sliced at the column offsets and each field is stripped.                *)

StartsWithAny(line, targets) ==
  \E k \in 1..Len(targets) : startswith(line, targets[k])

\* 1-based position of the first line at or after `from` that starts with
\* one of targets; Len(lines) + 1 when there is none
FirstMatch(lines, targets, from) ==
  LET hits == {k \in from..Len(lines) : StartsWithAny(lines[k], targets)}
  IN IF hits = {} THEN Len(lines) + 1
     ELSE CHOOSE k \in hits : \A j \in hits : k <= j

RECURSIVE Substitute(_, _)
Substitute(header, header_substitute) ==
  IF header_substitute = <<>> THEN header
  ELSE Substitute(replace(header, Head(header_substitute)[1], Head(header_substitute)[2]),
                  Tail(header_substitute))

\* One row: column name -> stripped cell; the last column runs to the end
TableRow(line, col_headers, col_index) ==
  [c \in {col_headers[k] : k \in 1..Len(col_headers)} |->
     LET k == CHOOSE j \in 1..Len(col_headers) :
                /\ col_headers[j] = c
                /\ \A m \in (j+1)..Len(col_headers) : col_headers[m] # c
     IN IF k = Len(col_headers)
        THEN strip(SliceFrom(line, col_index[k]))
        ELSE strip(Slice(line, col_index[k], col_index[k + 1]))]

\* What the table parser does with a block that holds no heading line is
\* not stated: it returns no rows or raises, as `absent` says.
AbsentHeading == {"no rows", "ValueError", "ParseException"}

parse_fixed_table(table_lines, heading_ignore, header_substitute, trailing_ignore, absent) ==
  LET first_line == FirstMatch(table_lines, heading_ignore, 1)
  IN IF first_line > Len(table_lines)
     THEN [exc |-> IF absent = "no rows" THEN "" ELSE absent, rows |-> <<>>,
           no_heading |-> TRUE]
     ELSE LET header == Substitute(table_lines[first_line], header_substitute)
              col_headers == split(header)
              col_index == [k \in 1..Len(col_headers) |-> find(header, col_headers[k])]
              last_line == IF trailing_ignore = <<>> THEN Len(table_lines) + 1
                           ELSE FirstMatch(table_lines, trailing_ignore, first_line + 1)
          IN [exc |-> "",
              no_heading |-> FALSE,
              rows |-> [k \in 1..(last_line - first_line - 1) |->
                          TableRow(table_lines[first_line + k], col_headers, col_index)]]

----------------------------------------------------------------------------
(* GlusterVolStatus.parse_content *)

\* idxs = [i for i, l in enumerate(content) if l.startswith('Status of volume')]
\* (0-based, ascending)
RECURSIVE idxsFrom(_, _)
idxsFrom(lines, i) ==
  IF i >= Len(lines) THEN <<>>
  ELSE (IF startswith(lines[i + 1], StatusOfVolume) THEN <<i>> ELSE <<>>)
         \o idxsFrom(lines, i + 1)

Idxs(lines) == idxsFrom(lines, 0)

\* SectionEnd with every section cut like the last one
SectionEnd_always_last(idxs, i) == -1

\* end = idxs[i+1] if i < len(idxs) - 1 else -1     (i is 0-based)
SectionEnd(idxs, i) == IF i < Len(idxs) - 1 THEN idxs[i + 2] ELSE -1

\* content[start:end] with start >= 0 and end possibly negative
Section(lines, start, end) ==
  Slice(lines, start, IF end < 0 THEN Max(end + Len(lines), 0) ELSE end)

\* HeaderSubstitute without the pair for 'TCP Port'
HeaderSubstitute_no_tcp ==
  << <<GlusterProcess, Gluster_process>>,
     <<RDMAPort, RDMA_Port>> >>

HeaderSubstitute ==
  << <<GlusterProcess, Gluster_process>>,
     <<TCPPort, TCP_Port>>,
     <<RDMAPort, RDMA_Port>> >>

HeadingIgnore == <<GlusterProcess>>

\* TrailingIgnore with nothing to ignore
TrailingIgnore_none == <<>>

TrailingIgnore == <<TaskStatus>>

\* Enrich with IP taken as the first word before the colon, not the last
Enrich_first_word(v) ==
  LET gluster_process == v[Gluster_process]
  IN IF startswith(gluster_process, Brick)
     THEN LET parts == split1(gluster_process, Colon)
          IN IF Len(parts) # 2 THEN [exc |-> "ValueError", row |-> v]
             ELSE LET words == split(parts[1])
                  IN [exc |-> "",
                      row |-> DictSet(DictSet(v, <<"IP">>, strip(words[1])),
                                      <<"Directory">>, strip(parts[2]))]
     ELSE IF startswith(gluster_process, SelfHeal)
     THEN LET words == split(gluster_process)
          IN [exc |-> "", row |-> DictSet(v, <<"Host">>, words[Len(words)])]
     ELSE [exc |-> "", row |-> v]

\* The derived fields of one row; exc is the exception raised, "" for none
Enrich(v) ==
  LET gluster_process == v[Gluster_process]
  IN IF startswith(gluster_process, Brick)
     THEN LET parts == split1(gluster_process, Colon)
          IN IF Len(parts) # 2 THEN [exc |-> "ValueError", row |-> v]
             ELSE LET words == split(parts[1])
                  IN [exc |-> "",
                      row |-> DictSet(DictSet(v, <<"IP">>, strip(words[Len(words)])),
                                      <<"Directory">>, strip(parts[2]))]
     ELSE IF startswith(gluster_process, SelfHeal)
     THEN LET words == split(gluster_process)
          IN [exc |-> "", row |-> DictSet(v, <<"Host">>, words[Len(words)])]
     ELSE [exc |-> "", row |-> v]

\* for v in body: ...   (the rows are changed in place, in order, until one raises)
RECURSIVE EnrichAll(_)
EnrichAll(body) ==
  IF body = <<>> THEN [exc |-> "", rows |-> <<>>]
  ELSE LET h == Enrich(Head(body))
       IN IF h.exc # "" THEN [exc |-> h.exc, rows |-> <<>>]
          ELSE LET t == EnrichAll(Tail(body))
               IN [exc |-> t.exc, rows |-> <<h.row>> \o t.rows]

\* One iteration of "for i, idx in enumerate(idxs)"    (i is 0-based)
StatusStep(st, lines, idxs, i, absent) ==
  IF st.exc # "" THEN st
  ELSE LET start == idxs[i + 1]
           end == SectionEnd(idxs, i)
           parts == split1(lines[start + 1], Colon)
       IN IF Len(parts) # 2 THEN [st EXCEPT !.exc = "ValueError"]
          ELSE LET table == parse_fixed_table(Section(lines, start, end), HeadingIgnore,
                                              HeaderSubstitute, TrailingIgnore, absent)
                   seen == st.no_heading \/ table.no_heading
               IN IF table.exc # ""
                  THEN [st EXCEPT !.exc = table.exc, !.no_heading = seen]
                  ELSE LET body == EnrichAll(table.rows)
                       IN IF body.exc # ""
                          THEN [st EXCEPT !.exc = body.exc, !.no_heading = seen]
                          ELSE [st EXCEPT !.data = DictSet(st.data, strip(parts[2]), body.rows),
                                          !.no_heading = seen]

RECURSIVE StatusLoop(_, _, _, _, _)
StatusLoop(st, lines, idxs, i, absent) ==
  IF i >= Len(idxs) THEN st
  ELSE StatusLoop(StatusStep(st, lines, idxs, i, absent), lines, idxs, i + 1, absent)

\* StatusCheckEmpty with the check left out
StatusCheckEmpty_skip(st) == st

\* if not self.data: raise ParseException
StatusCheckEmpty(st) ==
  IF st.exc = "" /\ DOMAIN st.data = {}
  THEN [st EXCEPT !.exc = "ParseException"]
  ELSE st

StatusResult(lines, absent) ==
  LET active == get_active_lines(lines, Dashes)
  IN StatusCheckEmpty(StatusLoop([data |-> EmptyDict, exc |-> "", no_heading |-> FALSE],
                                 active, Idxs(active), 0, absent))

GlusterVolStatus_parse_content ==
  /\ parser = "status"
  /\ outcome = "pending"
  /\ \E absent \in AbsentHeading :
       LET r == StatusResult(content, absent)
       IN /\ data' = r.data
          /\ outcome' = IF r.exc = "" THEN "ok" ELSE r.exc
          /\ no_heading' = r.no_heading
  /\ UNCHANGED <<parser, content, history, phase>>

----------------------------------------------------------------------------
(* insights.client.phase.v1.post_update, as its tests drive it: the phase  *)
(* loads the options, builds the client, registers unless a payload is     *)
(* uploaded, and exits.  What it does when one of the options that the     *)
(* tests hold false is set is not stated.                                  *)

\* the options that test_post_update.py holds false
PinnedOptions == {"status", "unregister", "offline", "enable_schedule",
                  "disable_schedule", "analyze_container", "display_name", "register"}

Options == PinnedOptions \cup {"payload"}

NormalRun(config) == \A o \in PinnedOptions : ~config[o]

\* RegisterCalls with the payload option ignored
RegisterCalls_always(config) == 1

\* calls of client.register() in a normal run
RegisterCalls(config) == IF config["payload"] THEN 0 ELSE 1

\* the phase is not running
PhaseIdle == [state |-> "idle"]

post_update ==
  /\ phase.state = "ready"
  /\ \/ /\ NormalRun(phase.config)
        /\ phase' = [phase EXCEPT !.state = "exited",
                                  !.register_calls = RegisterCalls(phase.config),
                                  !.exit_code = 0]
     \/ /\ ~NormalRun(phase.config)
        /\ \E n \in {0, 1}, code \in {0, 1} :
             phase' = [phase EXCEPT !.state = "exited",
                                    !.register_calls = n,
                                    !.exit_code = code]
  /\ UNCHANGED <<parser, content, data, outcome, no_heading, history>>

InitPhase ==
  /\ parser = "none"
  /\ content = <<>>
  /\ data = EmptyDict
  /\ outcome = "pending"
  /\ no_heading = FALSE
  /\ history = <<>>
  /\ \E config \in [Options -> BOOLEAN] :
       phase = [state |-> "ready", config |-> config, register_calls |-> 0, exit_code |-> -1]

NextPhase == post_update

SpecPhase == InitPhase /\ [][NextPhase]_vars

----------------------------------------------------------------------------
(* Inputs *)

MaxInfoLines == 4
MaxStatusLines == 3
MaxRows == 1

\* Lines of `gluster volume info` output, well formed and not
InfoLines == {
  <<"Volume", " ", "Name", ":", " ", "v1">>,
  <<"Volume", " ", "Name", ":", " ", "v2">>,
  <<"Type", ":", " ", "Replicate">>,
  <<" ", "Type", " ", ":", " ", " ", "Distribute", " ">>,
  <<"Brick1", ":", " ", "h", ":", "/d">>,
  <<"garbage">>,
  <<"#", " ", "Type", ":", " ", "x">>,
  <<" ">>
}

\* Lines of `gluster volume status` output
StatusV1 == <<"Status", " ", "of", " ", "volume", ":", " ", "v1">>
StatusV2 == <<"Status", " ", "of", " ", "volume", ":", " ", "v2">>
StatusNoColon == <<"Status", " ", "of", " ", "volume", " ", "v1">>
Heading ==
  <<"Gluster", " ", "process", " ", " ", " ", " ", " ",
    "TCP", " ", "Port", " ", "RDMA", " ", "Port", " ", "Online", " ", "Pid">>
BrickRow ==
  <<"Brick", " ", "h", ":", "/d", " ", " ", " ",
    "49152", " ", " ", " ", "0", " ", " ", " ", "Y", " ", "26685">>
BrickNoColon ==
  <<"Brick", " ", "h", " ", "/d", " ", " ", " ",
    "49152", " ", " ", " ", "0", " ", " ", " ", "Y", " ", "26685">>
SelfHealRow ==
  <<"Self-heal", " ", "Daemon", " ", "on", " ", "h2", " ",
    "N/A", " ", " ", " ", "N/A", " ", " ", " ", "Y", " ", "7805">>
NfsRow ==
  <<"NFS", " ", "Server", " ", "on", " ", "h2", " ",
    "2049", " ", " ", " ", "0", " ", " ", " ", "N", " ", "N/A">>
TaskLine == <<"Task", " ", "Status", " ", "of", " ", "Volume", " ", "v1">>
NoTasksLine == <<"There", " ", "are", " ", "no", " ", "active", " ", "volume", " ", "tasks">>
RuleLine == <<"----", "----", "----">>

StatusLines == {StatusV1, StatusV2, StatusNoColon, Heading, BrickRow, BrickNoColon,
                SelfHealRow, NfsRow, TaskLine, NoTasksLine, RuleLine}

SeqsUpTo(S, n) == UNION {[1..k -> S] : k \in 0..n}

InfoInputs == SeqsUpTo(InfoLines, MaxInfoLines)

\* Whole sections as the command prints them: header, rule, heading, rows
\* and, or not, the task status block
Sections ==
  {<<h, Heading, RuleLine>> \o rows \o tail :
     h \in {StatusV1, StatusV2},
     rows \in SeqsUpTo({BrickRow, SelfHealRow, NfsRow}, MaxRows),
     tail \in {<<>>, <<TaskLine, RuleLine, NoTasksLine>>}}

StatusInputs ==
  SeqsUpTo(StatusLines, MaxStatusLines)
    \cup {s1 \o s2 : s1 \in Sections, s2 \in Sections \cup {<<>>}}

Init ==
  /\ \/ parser = "info" /\ content \in InfoInputs
     \/ parser = "status" /\ content \in StatusInputs
  /\ data = EmptyDict
  /\ outcome = "pending"
  /\ no_heading = FALSE
  /\ history = <<>>
  /\ phase = PhaseIdle

Next ==
  \/ GlusterVolInfo_parse_content
  \/ GlusterVolStatus_parse_content

Spec == Init /\ [][Next]_vars

----------------------------------------------------------------------------
(* The same parser object called again: parse_content may be called any    *)
(* number of times on one object; here up to three times, the third call   *)
(* with the lines of the first.                                            *)

\* What the object parsed before it is handed the lines again: a text that
\* parses, and one that fills self.data and then raises
EarlierInfo == {
  << <<"Volume", " ", "Name", ":", " ", "v1">>, <<"Type", ":", " ", "Replicate">>,
     <<"Volume", " ", "Name", ":", " ", "v2">>, <<"Brick1", ":", " ", "h", ":", "/d">> >>,
  << <<"Volume", " ", "Name", ":", " ", "v2">>, <<"Type", ":", " ", "Replicate">>,
     <<"Volume", " ", "Name", ":", " ", "v1">>, <<"garbage">> >>
}

EarlierStatus == {
  <<StatusV1, Heading, RuleLine, BrickRow, TaskLine, RuleLine, NoTasksLine>>,
  <<StatusV2, Heading, NfsRow, SelfHealRow, StatusNoColon>>
}

Earlier == IF parser = "info" THEN EarlierInfo ELSE EarlierStatus

\* the call that has ended, as the caller saw it
LastCall ==
  [content |-> content, data |-> data, outcome |-> outcome, no_heading |-> no_heading]

\* The caller hands the object the lines c for another parse_content call;
\* self.data stays what the last call left until the call runs.
CallAgain(c) ==
  /\ outcome # "pending"
  /\ \/ history = <<>> /\ c \in Earlier \cup {content}
     \/ Len(history) = 1 /\ content # history[1].content /\ c = history[1].content
  /\ history' = Append(history, LastCall)
  /\ content' = c
  /\ outcome' = "pending"
  /\ no_heading' = FALSE
  /\ UNCHANGED <<parser, data, phase>>

InfoInputsTwice == SeqsUpTo(InfoLines, MaxInfoLines - 1)

StatusInputsTwice == SeqsUpTo(StatusLines, MaxStatusLines - 1) \cup Sections

InitTwice ==
  /\ \/ parser = "info" /\ content \in InfoInputsTwice
     \/ parser = "status" /\ content \in StatusInputsTwice
  /\ data = EmptyDict
  /\ outcome = "pending"
  /\ no_heading = FALSE
  /\ history = <<>>
  /\ phase = PhaseIdle

NextTwice ==
  \/ GlusterVolInfo_parse_content
  \/ GlusterVolStatus_parse_content
  \/ \E c \in Earlier \cup {content} \cup {history[i].content : i \in 1..Len(history)} :
       CallAgain(c)

SpecTwice == InitTwice /\ [][NextTwice]_vars

----------------------------------------------------------------------------
(* Vocabulary of the properties: the input as a reader of the text sees it *)

Done == outcome # "pending"

HasSym(s, c) == \E i \in 1..Len(s) : s[i] = c

\* position of the first colon of a line that holds one
FirstColon(s) == CHOOSE i \in 1..Len(s) : s[i] = ":" /\ \A j \in 1..(i-1) : s[j] # ":"

BeforeColon(s) == SubSeq(s, 1, FirstColon(s) - 1)
AfterColon(s) == SubSeq(s, FirstColon(s) + 1, Len(s))

\* the name a marker or header line gives: the trimmed text after its colon
NameOf(line) == strip(AfterColon(line))

InfoActive == get_active_lines(content, Hash)
StatusActive == get_active_lines(content, Dashes)

\* positions of the 'Volume Name' markers among the active info lines
Markers(a) ==
  {p \in 1..Len(a) : HasSym(a[p], ":") /\ strip(BeforeColon(a[p])) = VolumeName}

\* positions of the 'Status of volume' headers among the active status lines
Headers(a) == {p \in 1..Len(a) : startswith(a[p], StatusOfVolume)}

\* last line of the section that the header at p opens
SectionLast(a, p) ==
  LET later == {q \in Headers(a) : q > p}
  IN IF later = {} THEN Len(a) ELSE SetMin(later) - 1

\* position of the first 'Task Status' line of the section at p, or the
\* position after the section when it has none
TaskAt(a, p) ==
  LET ts == {q \in p..SectionLast(a, p) : startswith(a[q], TaskStatus)}
  IN IF ts = {} THEN SectionLast(a, p) + 1 ELSE SetMin(ts)

----------------------------------------------------------------------------
(* C1: the section of the last 'Status of volume' header extends to the    *)
(* end of the input: when the lines after its heading hold no 'Task        *)
(* Status' line, each of them, the final line of the input included, is a  *)
(* row of that volume.                                                     *)

C1_LastSectionReachesEnd ==
  (parser = "status" /\ outcome = "ok" /\ Headers(StatusActive) # {}) =>
    LET a == StatusActive
        p == SetMax(Headers(a))
    IN (/\ Len(a) >= p + 2
        /\ startswith(a[p + 1], GlusterProcess)
        /\ TaskAt(a, p) = Len(a) + 1)
       => /\ Len(data[NameOf(a[p])]) = Len(a) - (p + 1)
          /\ startswith(a[Len(a)], data[NameOf(a[p])][Len(a) - (p + 1)][Gluster_process])

----------------------------------------------------------------------------
(* C2: an info input made of N volume blocks, each opened by a 'Volume     *)
(* Name:' line with a distinct name, parses to exactly N entries, keyed by *)
(* the trimmed names.                                                      *)

C2_OneEntryPerBlock ==
  (parser = "info" /\ Done) =>
    LET a == InfoActive
    IN (/\ a # <<>>
        /\ \A p \in 1..Len(a) : HasSym(a[p], ":")
        /\ 1 \in Markers(a)
        /\ \A p, q \in Markers(a) : p # q => NameOf(a[p]) # NameOf(a[q]))
       => /\ outcome = "ok"
          /\ DOMAIN data = {NameOf(a[p]) : p \in Markers(a)}
          /\ Cardinality(DOMAIN data) = Cardinality(Markers(a))

----------------------------------------------------------------------------
(* C3: every failure of either parser is a ParseException.  (The calls     *)
(* that hand the table parser a block without heading are set aside: what  *)
(* it does then is not stated.)                                            *)

C3_OnlyParseException ==
  ~no_heading => outcome \in {"pending", "ok", "ParseException"}

----------------------------------------------------------------------------
(* C4: GlusterVolInfo.parse_content raises ParseException whenever some    *)
(* active line holds no colon, wherever that line stands.                  *)

C4_NoColonRaises ==
  (parser = "info" /\ Done /\ \E p \in 1..Len(InfoActive) : ~HasSym(InfoActive[p], ":"))
    => outcome = "ParseException"

\* a volume with one attribute, then a last line without colon
C4_Witness ==
  /\ parser = "info" /\ outcome = "ParseException"
  /\ Len(content) = 3
  /\ HasSym(content[1], ":") /\ strip(BeforeColon(content[1])) = VolumeName
  /\ HasSym(content[2], ":") /\ ~HasSym(content[2], "#")
  /\ ~HasSym(content[3], ":") /\ strip(content[3]) # <<>>

----------------------------------------------------------------------------
(* C5: neither parser returns with an empty data mapping: the info parser  *)
(* raises ParseException on zero active lines, the status parser when no   *)
(* active line starts with 'Status of volume'.                             *)

C5_NeverEmpty ==
  /\ outcome = "ok" => DOMAIN data # {}
  /\ (parser = "info" /\ Done /\ InfoActive = <<>>) => outcome = "ParseException"
  /\ (parser = "status" /\ Done /\ Headers(StatusActive) = {}) => outcome = "ParseException"

\* a heading and a row without any header before them
C5_Witness ==
  /\ parser = "status" /\ outcome = "ParseException"
  /\ Len(StatusActive) >= 2
  /\ startswith(StatusActive[1], GlusterProcess)
  /\ startswith(StatusActive[2], Brick)
  /\ Headers(StatusActive) = {}

----------------------------------------------------------------------------
(* Rows of the result *)

\* the (name, position) pairs of all rows in self.data
RowsOf(d) == UNION {{<<n, k>> : k \in 1..Len(d[n])} : n \in DOMAIN d}

\* w is the last blank-separated word of s
IsLastWord(w, s) ==
  LET t == rstrip(s)
  IN /\ w # <<>>
     /\ ~HasSym(w, " ")
     /\ Len(t) >= Len(w)
     /\ SubSeq(t, Len(t) - Len(w) + 1, Len(t)) = w
     /\ (Len(t) > Len(w) => t[Len(t) - Len(w)] = " ")

----------------------------------------------------------------------------
(* C6: every row of a parsed status table carries the renamed column names *)
(* Gluster_process, TCP_Port and RDMA_Port, with Online and Pid, and none  *)
(* of the original names 'Gluster process', 'TCP Port', 'RDMA Port'.       *)

----------------------------------------------------------------------------
(* C7: a row whose Gluster_process starts with 'Brick' gains IP, the last  *)
(* word before the first colon, and Directory, the trimmed text after that *)
(* colon; one that starts with 'Self-heal' gains Host, the last word of    *)
(* the value; any other row gains none of IP, Directory and Host.          *)

C7_DerivedFields ==
  (parser = "status" /\ outcome = "ok") =>
    \A nk \in RowsOf(data) :
      LET row == data[nk[1]][nk[2]]
          gp == row[Gluster_process]
      IN IF startswith(gp, Brick)
         THEN /\ {<<"IP">>, <<"Directory">>} \subseteq DOMAIN row
              /\ HasSym(gp, ":")
              /\ IsLastWord(row[<<"IP">>], BeforeColon(gp))
              /\ row[<<"Directory">>] = strip(AfterColon(gp))
         ELSE IF startswith(gp, SelfHeal)
         THEN /\ <<"Host">> \in DOMAIN row
              /\ IsLastWord(row[<<"Host">>], gp)
              /\ (DOMAIN row) \cap {<<"IP">>, <<"Directory">>} = {}
         ELSE (DOMAIN row) \cap {<<"IP">>, <<"Directory">>, <<"Host">>} = {}

\* a result holding a Brick row and a Self-heal row
C7_Witness ==
  /\ parser = "status" /\ outcome = "ok"
  /\ \E nk \in RowsOf(data) :
       LET row == data[nk[1]][nk[2]]
       IN /\ row[Gluster_process] = <<"Brick", " ", "h", ":", "/d">>
          /\ row[<<"IP">>] = <<"h">>
          /\ row[<<"Directory">>] = <<"/d">>
  /\ \E nk \in RowsOf(data) :
       LET row == data[nk[1]][nk[2]]
       IN /\ startswith(row[Gluster_process], SelfHeal)
          /\ row[<<"Host">>] = <<"h2">>

----------------------------------------------------------------------------
(* C8: in every section, the first or a later one, the 'Task Status' line  *)
(* and the lines after it are no rows: row k of a volume is built from the *)
(* k-th line after the heading of its section, which stands before the     *)
(* section's 'Task Status' line, so none is built from that line or from   *)
(* the 'There are no active volume tasks' that follows it; and a task      *)
(* block raises no error.                                                  *)

\* the sections that have a heading
HasHeading(a, p) == \E q \in p..SectionLast(a, p) : startswith(a[q], GlusterProcess)

HeadingAt(a, p) == SetMin({q \in p..SectionLast(a, p) : startswith(a[q], GlusterProcess)})

\* the header at p is the last one that gives its name
LastOfName(a, p) ==
  \A q \in Headers(a) : (q > p /\ HasSym(a[q], ":")) => NameOf(a[q]) # NameOf(a[p])

\* every section opens with header and heading, ends with a task block, and
\* holds no Brick line without colon between the two
TaskBlocksEverywhere(a) ==
  /\ 1 \in Headers(a)
  /\ \A p \in Headers(a) :
       /\ HasSym(a[p], ":")
       /\ p < Len(a) /\ startswith(a[p + 1], GlusterProcess)
       /\ TaskAt(a, p) <= SectionLast(a, p)
       /\ \A q \in (p + 2)..(TaskAt(a, p) - 1) : startswith(a[q], Brick) => HasSym(a[q], ":")

----------------------------------------------------------------------------
(* C9: the status parser succeeds on every input that holds at least one   *)
(* 'Status of volume: NAME' header.  (The calls that hand the table parser *)
(* a block without heading are set aside, as for C3.)                      *)

C9_SucceedsWithAHeader ==
  (/\ parser = "status" /\ Done /\ ~no_heading
   /\ \E p \in Headers(StatusActive) : HasSym(StatusActive[p], ":"))
    => outcome = "ok"

----------------------------------------------------------------------------
(* C10: each active info line is split at its first colon only: a stored   *)
(* key is the trimmed text before the first colon of some line, and its    *)
(* value is the whole left-trimmed text after that colon, further colons   *)
(* included.                                                               *)

C10_SplitAtFirstColon ==
  (parser = "info" /\ outcome = "ok") =>
    \A n \in DOMAIN data : \A k \in DOMAIN data[n] :
      /\ k = strip(k)
      /\ ~HasSym(k, ":")
      /\ \E p \in 1..Len(InfoActive) :
           /\ HasSym(InfoActive[p], ":")
           /\ strip(BeforeColon(InfoActive[p])) = k
           /\ data[n][k] = lstrip(AfterColon(InfoActive[p]))

\* 'Brick1: h:/d' stored under Brick1 with its second colon
C10_Witness ==
  /\ parser = "info" /\ outcome = "ok"
  /\ <<"v1">> \in DOMAIN data
  /\ <<"Brick1">> \in DOMAIN data[<<"v1">>]
  /\ data[<<"v1">>][<<"Brick1">>] = <<"h", ":", "/d">>

----------------------------------------------------------------------------
(* Blocks of the info text *)

KeyOf(line) == strip(BeforeColon(line))
ValOf(line) == lstrip(AfterColon(line))

AllHaveColon(a) == \A p \in 1..Len(a) : HasSym(a[p], ":")

\* the attribute lines of the block that the marker at p opens
BlockLines(a, p) ==
  LET later == {q \in Markers(a) : q > p}
  IN (p + 1)..(IF later = {} THEN Len(a) ELSE SetMin(later) - 1)

\* rec holds the keys of the lines Q, each with the value of its last line
RecordOf(rec, a, Q) ==
  /\ DOMAIN rec = {KeyOf(a[q]) : q \in Q}
  /\ \A q \in Q : (\A r \in Q : r > q => KeyOf(a[r]) # KeyOf(a[q]))
                    => rec[KeyOf(a[q])] = ValOf(a[q])

----------------------------------------------------------------------------
(* C13: after the last line the info parser commits the current volume     *)
(* whenever a name is set, also with an empty record: the name of the last *)
(* marker is a key of the result, and a marker that is the last line maps  *)
(* its name to an empty record instead of being dropped.                   *)

C13_LastVolumeCommitted ==
  (parser = "info" /\ Done /\ AllHaveColon(InfoActive) /\ Markers(InfoActive) # {}) =>
    LET a == InfoActive
        p == SetMax(Markers(a))
    IN /\ outcome = "ok"
       /\ NameOf(a[p]) \in DOMAIN data
       /\ p = Len(a) => DOMAIN data[NameOf(a[p])] = {}

----------------------------------------------------------------------------
(* C14: the record is empty when the first 'Volume Name' line is read:     *)
(* every stored key and value comes from a line after the first marker,    *)
(* and the first volume's keys come from the lines between its marker and  *)
(* the next one.                                                           *)

C14_FirstRecordStartsEmpty ==
  (parser = "info" /\ outcome = "ok" /\ Markers(InfoActive) # {}) =>
    LET a == InfoActive
        p == SetMin(Markers(a))
    IN /\ \A n \in DOMAIN data : \A k \in DOMAIN data[n] :
            \E q \in (p + 1)..Len(a) : KeyOf(a[q]) = k /\ ValOf(a[q]) = data[n][k]
       /\ (/\ NameOf(a[p]) \in DOMAIN data
           /\ \A q \in Markers(a) : q > p => NameOf(a[q]) # NameOf(a[p]))
          => DOMAIN data[NameOf(a[p])] \subseteq {KeyOf(a[q]) : q \in BlockLines(a, p)}

----------------------------------------------------------------------------
(* C15: with two 'Status of volume' headers of distinct names the result   *)
(* has exactly the two names as keys; the rows of the first volume are     *)
(* built, in order, from lines before the second header, those of the      *)
(* second from lines after it.                                             *)

C15_TwoSections ==
  (parser = "status" /\ outcome = "ok" /\ Cardinality(Headers(StatusActive)) = 2) =>
    LET a == StatusActive
        p1 == SetMin(Headers(a))
        p2 == SetMax(Headers(a))
        n1 == NameOf(a[p1])
        n2 == NameOf(a[p2])
    IN n1 # n2 =>
         /\ DOMAIN data = {n1, n2}
         /\ Cardinality(DOMAIN data) = 2
         /\ IF ~HasHeading(a, p1) THEN data[n1] = <<>>
            ELSE \A k \in 1..Len(data[n1]) :
                   /\ HeadingAt(a, p1) + k < p2
                   /\ startswith(a[HeadingAt(a, p1) + k], data[n1][k][Gluster_process])
         /\ IF ~HasHeading(a, p2) THEN data[n2] = <<>>
            ELSE \A k \in 1..Len(data[n2]) :
                   /\ HeadingAt(a, p2) > p2
                   /\ HeadingAt(a, p2) + k <= Len(a)
                   /\ startswith(a[HeadingAt(a, p2) + k], data[n2][k][Gluster_process])

\* a Brick row under v1, then an NFS row under v2
C15_Witness ==
  /\ parser = "status" /\ outcome = "ok"
  /\ Cardinality(Headers(StatusActive)) = 2
  /\ DOMAIN data = {<<"v1">>, <<"v2">>}
  /\ Len(data[<<"v1">>]) = 1
  /\ startswith(data[<<"v1">>][1][Gluster_process], Brick)
  /\ Len(data[<<"v2">>]) = 1
  /\ startswith(data[<<"v2">>][1][Gluster_process], <<"NFS">>)
  /\ NameOf(StatusActive[1]) = <<"v1">>

----------------------------------------------------------------------------
(* C16: a name that follows two markers has one entry, the record of its   *)
(* later block; and a key repeated within a block keeps the value of its   *)
(* last line.  (Stated of the texts that open with a marker: the lines     *)
(* before the first marker are the matter of C14.)                         *)

C16_LastWriteWins ==
  (parser = "info" /\ outcome = "ok" /\ 1 \in Markers(InfoActive)) =>
    LET a == InfoActive
    IN /\ \A p \in Markers(a) :
            (/\ \E q \in Markers(a) : q < p /\ NameOf(a[q]) = NameOf(a[p])
             /\ \A q \in Markers(a) : q > p => NameOf(a[q]) # NameOf(a[p]))
            => /\ NameOf(a[p]) \in DOMAIN data
               /\ RecordOf(data[NameOf(a[p])], a, BlockLines(a, p))
       /\ Markers(a) = {1} => RecordOf(data[NameOf(a[1])], a, 2..Len(a))

----------------------------------------------------------------------------
(* C11: the parsers are deterministic and keep nothing between calls: two  *)
(* calls of parse_content with the same lines, the first on the fresh      *)
(* object and the other after a parse of other lines, or the one right     *)
(* after the other, end with equal data mappings and the same outcome.     *)
(* (The calls that hand the table parser a block without heading are set   *)
(* aside, as for C3.)                                                      *)

Calls == {history[i] : i \in 1..Len(history)} \cup (IF Done THEN {LastCall} ELSE {})

C11_Deterministic ==
  \A g \in Calls : \A h \in Calls :
    (g.content = h.content /\ ~g.no_heading /\ ~h.no_heading)
      => (g.data = h.data /\ g.outcome = h.outcome)

\* the lines of the first call parsed again after lines that left other names
C11_Witness ==
  /\ Len(history) = 2 /\ outcome = "ok"
  /\ history[1].content = content
  /\ history[2].content # content
  /\ DOMAIN history[2].data # {}
  /\ DOMAIN history[2].data # DOMAIN data
  /\ data = history[1].data

----------------------------------------------------------------------------
(* C12: in the post_update phase, with status, unregister, offline,        *)
(* enable_schedule, disable_schedule, analyze_container, display_name and  *)
(* register all false, client.register() is called exactly once when the   *)
(* payload option is off and never when it is on, and the phase ends with  *)
(* exit code 0.                                                            *)

====
